---- MODULE Spec2Model ----
(***************************************************************************)
(* ZmpOptimizer (src/src/zmp_optimizer.cc): the facade that turns a spline *)
(* plan into the cost, equality and inequality matrices of a QP and hands  *)
(* them to a QP or NLP solver.                                             *)
(*                                                                         *)
(* Numbers.  The code computes in double; the model computes on an integer *)
(* grid.  Time is counted in ticks of 0.05 s, so the sampling interval     *)
(* dt = 0.1 of SetupQpMatrices is 2 ticks and a duration of 1 tick is a    *)
(* segment shorter than dt.  Lengths are integers, g is 981 (cm/s^2 scale) *)
(* and heights are multiples of g so that h/(g+z_acc) is exact.  The cost  *)
(* entries 400/7, 120/5, 144/5 are stored multiplied by CostScale = 35.    *)
(* Vectors and matrices are indexed from 0 as in Eigen: M[r][c] is M(r,c). *)
(***************************************************************************)
EXTENDS Integers, Sequences, FiniteSets, TLC

VARIABLES
  zmp_splines_,           \* the spline sequence (zmp_splines_.splines_)
  cf_, eq_, ineq_,        \* the three MatVec artifacts
  footholds_,             \* copy of the planned steps
  lines_for_constraint_,  \* one support-triangle line per inequality row
  ineq_ipopt_,            \* raw inequality rows (before the p/q scaling)
  ineq_ipopt_vx_,
  ineq_ipopt_vy_,
  last_call,              \* the member function that ran last
  thrown,                 \* the exception it left with, or "none"
  ret,                    \* the vector it returned, or <<>>
  final_footholds,        \* the caller's output argument of SolveIpopt
  qp,                     \* the last solve_quadprog call: handed, cost, x
  nlp,                    \* the last Ipopt run: calls made and its results
  setup_done,             \* some SetupQpMatrices call has returned normally
  args,                   \* arguments of the last builder run
  counters,               \* final values of the row counters i and c
  pc                      \* position inside a stepwise builder run

vars == <<zmp_splines_, cf_, eq_, ineq_, footholds_, lines_for_constraint_,
          ineq_ipopt_, ineq_ipopt_vx_, ineq_ipopt_vy_, last_call, thrown, ret,
          final_footholds, qp, nlp, setup_done, args, counters, pc>>

artifacts == <<cf_, eq_, ineq_, footholds_, lines_for_constraint_,
               ineq_ipopt_, ineq_ipopt_vx_, ineq_ipopt_vy_>>

-----------------------------------------------------------------------------
(* Bounds of the model *)

MaxSplines == 2
MaxFacadeSplines == 1

-----------------------------------------------------------------------------
(* Program constants *)

X == 0
Y == 1
A == 0
B == 1
C == 2
D == 3
kDim2d == 2
kOptCoeff == 4
kDt == 2
g == 981
z_acc == 0
kCostThresholdMilli == 2
CostScale == 5 * 7

Dims == {X, Y}

-----------------------------------------------------------------------------
(* Vectors *)

\* the same function with its values computed once (TLC would otherwise
\* compute an entry again each time it is read)
Concrete(f) == f @@ << >>

ZeroVec(n) == Concrete([r \in 0..(n - 1) |-> 0])

FillVec(n, x) == Concrete([r \in 0..(n - 1) |-> x])

SetAt(v, i, x) == [v EXCEPT ![i] = x]

AddVec(v, w) == Concrete([r \in DOMAIN v |-> v[r] + w[r]])

ScaleVec(a, v) == Concrete([r \in DOMAIN v |-> a * v[r]])

CwiseProduct(v, w) == Concrete([r \in DOMAIN v |-> v[r] * w[r]])

RECURSIVE Pow(_, _)
Pow(t, e) == IF e = 0 THEN 1 ELSE t * Pow(t, e - 1)

\* cache_exponents<N>(t): t^0 .. t^(N-1)
cache_exponents(t, N) == Concrete([e \in 0..(N - 1) |-> Pow(t, e)])

\* MatVec(rows, cols): a zero rows x cols matrix M and a zero vector v
MatVec(rows, cols) ==
  [rows |-> rows, cols |-> cols,
   M |-> Concrete([r \in 0..(rows - 1) |-> ZeroVec(cols)]),
   v |-> ZeroVec(cols)]

\* the matrix whose columns are the given vectors (cols[c] is column c)
FromCols(rows, ncols, colvecs, v) ==
  [rows |-> rows, cols |-> ncols,
   M |-> Concrete([r \in 0..(rows - 1) |->
                      Concrete([c \in 0..(ncols - 1) |-> colvecs[c][r]])]),
   v |-> v]

Col(mv, c) == Concrete([r \in 0..(mv.rows - 1) |-> mv.M[r][c]])

-----------------------------------------------------------------------------
(* The spline sequence *)

NSplines == Len(zmp_splines_)

\* the segment with id_ = id
Spline(id) == zmp_splines_[id + 1]

GetOptCoeffCount == NSplines * kDim2d * kOptCoeff

var_index(id, dim, coeff) == kOptCoeff * kDim2d * id + kOptCoeff * dim + coeff

\* E of segment k on axis dim as an affine function of the free coefficients
\* of the segments before k: velocity of segment k-1 at its duration
RECURSIVE DescribeEByPrev(_, _, _)
DescribeEByPrev(k, dim, start_v) ==
  IF k = 0
    THEN [Ek |-> ZeroVec(GetOptCoeffCount), non_dependent |-> start_v]
    ELSE LET prev == DescribeEByPrev(k - 1, dim, start_v)
             T == cache_exponents(Spline(k - 1).duration_, 6)
             a == var_index(k - 1, dim, A)
         IN  [Ek |-> [prev.Ek EXCEPT ![a + A] = @ + 5 * T[4],
                                     ![a + B] = @ + 4 * T[3],
                                     ![a + C] = @ + 3 * T[2],
                                     ![a + D] = @ + 2 * T[1]],
              non_dependent |-> prev.non_dependent]

\* F of segment k: position of segment k-1 at its duration
RECURSIVE DescribeFByPrev(_, _, _, _)
DescribeFByPrev(k, dim, start_v, start_p) ==
  IF k = 0
    THEN [Fk |-> ZeroVec(GetOptCoeffCount), non_dependent |-> start_p]
    ELSE LET prevF == DescribeFByPrev(k - 1, dim, start_v, start_p)
             prevE == DescribeEByPrev(k - 1, dim, start_v)
             T == cache_exponents(Spline(k - 1).duration_, 6)
             a == var_index(k - 1, dim, A)
             carried == AddVec(prevF.Fk, ScaleVec(T[1], prevE.Ek))
         IN  [Fk |-> [carried EXCEPT ![a + A] = @ + T[5],
                                     ![a + B] = @ + T[4],
                                     ![a + C] = @ + T[3],
                                     ![a + D] = @ + T[2]],
              non_dependent |-> prevF.non_dependent + T[1] * prevE.non_dependent]

-----------------------------------------------------------------------------
(* Cost function builder *)

Vec2(x, y) == [d \in Dims |-> IF d = X THEN x ELSE y]

\* the ten upper-triangle entries written for segment s on axis dim
WriteUpperTriangle(M, s, dim, weight) ==
  LET t_span == cache_exponents(s.duration_, 10)
      a == var_index(s.id_, dim, A)
      b == var_index(s.id_, dim, B)
      c == var_index(s.id_, dim, C)
      d == var_index(s.id_, dim, D)
  IN  [M EXCEPT ![a][a] = ((400 * CostScale) \div 7) * t_span[7] * weight[dim],
                ![a][b] = (40 * CostScale) * t_span[6] * weight[dim],
                ![a][c] = ((120 * CostScale) \div 5) * t_span[5] * weight[dim],
                ![a][d] = (10 * CostScale) * t_span[4] * weight[dim],
                ![b][b] = ((144 * CostScale) \div 5) * t_span[5] * weight[dim],
                ![b][c] = (18 * CostScale) * t_span[4] * weight[dim],
                ![b][d] = (8 * CostScale) * t_span[3] * weight[dim],
                ![c][c] = (12 * CostScale) * t_span[3] * weight[dim],
                ![c][d] = (6 * CostScale) * t_span[2] * weight[dim],
                ![d][d] = (4 * CostScale) * t_span[1] * weight[dim]]

\* faulty variant: the mirroring left out
MirrorLowerTriangle_Skipped(M) == M

\* for c, for r > c: M(r, c) = M(c, r)
MirrorLowerTriangle(M) ==
  Concrete([r \in DOMAIN M |->
              Concrete([c \in DOMAIN M[r] |-> IF r > c THEN M[c][r] ELSE M[r][c]])])

\* the loop over the segments and, inside, over the axes X, Y; n counts the
\* (segment, axis) iterations already done
RECURSIVE CostLoop(_, _, _)
CostLoop(M, n, weight) ==
  IF n = NSplines * kDim2d
    THEN M
    ELSE LET s == Spline(n \div kDim2d)
             dim == n % kDim2d
         IN  CostLoop(MirrorLowerTriangle(WriteUpperTriangle(M, s, dim, weight)),
                      n + 1, weight)

CreateMinAccCostFunction(weight) ==
  LET n_coeff == GetOptCoeffCount
      cf == MatVec(n_coeff, n_coeff)
  IN  [cf EXCEPT !.M = CostLoop(cf.M, 0, weight)]

-----------------------------------------------------------------------------
(* Equality constraint builder *)

kAccStart == Vec2(0, 0)
kJerkStart == Vec2(0, 0)
kVelEnd == Vec2(0, 0)
kAccEnd == Vec2(0, 0)

\* faulty variant: the junction rows forgotten in the count
EqConstraintCount_NoJunctions == kDim2d * 2 + kDim2d * 3

\* the number of columns the matrix is allocated with
EqConstraintCount ==
  kDim2d * 2 + kDim2d * 3 + (NSplines - 1) * kDim2d * 2

\* a constraint: its column of the matrix and its entry of the vector
Row(col, v) == [col |-> col, v |-> v]

InitAccRow(dim) ==
  Row(SetAt(ZeroVec(GetOptCoeffCount), var_index(0, dim, D), 2), -kAccStart[dim])

InitJerkRow(dim) ==
  Row(SetAt(ZeroVec(GetOptCoeffCount), var_index(0, dim, C), 6), -kJerkStart[dim])

LastSpline == zmp_splines_[NSplines]

FinalPosRow(dim, start_cog_p, start_cog_v, end_cog) ==
  LET K == LastSpline.id_
      last_spline == var_index(K, dim, A)
      t_duration == cache_exponents(LastSpline.duration_, 6)
      e == DescribeEByPrev(K, dim, start_cog_v[dim])
      f == DescribeFByPrev(K, dim, start_cog_v[dim], start_cog_p[dim])
      own == [ZeroVec(GetOptCoeffCount) EXCEPT ![last_spline + A] = t_duration[5],
                                               ![last_spline + B] = t_duration[4],
                                               ![last_spline + C] = t_duration[3],
                                               ![last_spline + D] = t_duration[2]]
  IN  Row(AddVec(AddVec(own, ScaleVec(t_duration[1], e.Ek)), f.Fk),
          e.non_dependent * t_duration[1] + f.non_dependent - end_cog[dim])

FinalVelRow(dim, start_cog_v) ==
  LET K == LastSpline.id_
      last_spline == var_index(K, dim, A)
      t_duration == cache_exponents(LastSpline.duration_, 6)
      e == DescribeEByPrev(K, dim, start_cog_v[dim])
      own == [ZeroVec(GetOptCoeffCount) EXCEPT ![last_spline + A] = 5 * t_duration[4],
                                               ![last_spline + B] = 4 * t_duration[3],
                                               ![last_spline + C] = 3 * t_duration[2],
                                               ![last_spline + D] = 2 * t_duration[1]]
  IN  Row(AddVec(own, e.Ek), e.non_dependent - kVelEnd[dim])

FinalAccRow(dim) ==
  LET K == LastSpline.id_
      last_spline == var_index(K, dim, A)
      t_duration == cache_exponents(LastSpline.duration_, 6)
  IN  Row([ZeroVec(GetOptCoeffCount) EXCEPT ![last_spline + A] = 20 * t_duration[3],
                                            ![last_spline + B] = 12 * t_duration[2],
                                            ![last_spline + C] = 6 * t_duration[1],
                                            ![last_spline + D] = 2],
          -kAccEnd[dim])

\* the five rows written for one axis, in the order the counter i gives them
BoundaryRows(dim, start_cog_p, start_cog_v, end_cog) ==
  << InitAccRow(dim), InitJerkRow(dim),
     FinalPosRow(dim, start_cog_p, start_cog_v, end_cog),
     FinalVelRow(dim, start_cog_v),
     FinalAccRow(dim) >>

\* faulty variant: the next segment's D entered with the wrong sign
JunctionAccRow_NextSign(s, dim) ==
  LET t_duration == cache_exponents(Spline(s).duration_, 6)
      curr_spline == var_index(s, dim, A)
      next_spline == var_index(s + 1, dim, A)
  IN  Row([ZeroVec(GetOptCoeffCount) EXCEPT ![curr_spline + A] = 20 * t_duration[3],
                                            ![curr_spline + B] = 12 * t_duration[2],
                                            ![curr_spline + C] = 6 * t_duration[1],
                                            ![curr_spline + D] = 2,
                                            ![next_spline + D] = 2],
          0)

JunctionAccRow(s, dim) ==
  LET t_duration == cache_exponents(Spline(s).duration_, 6)
      curr_spline == var_index(s, dim, A)
      next_spline == var_index(s + 1, dim, A)
  IN  Row([ZeroVec(GetOptCoeffCount) EXCEPT ![curr_spline + A] = 20 * t_duration[3],
                                            ![curr_spline + B] = 12 * t_duration[2],
                                            ![curr_spline + C] = 6 * t_duration[1],
                                            ![curr_spline + D] = 2,
                                            ![next_spline + D] = -2],
          0)

JunctionJerkRow(s, dim) ==
  LET t_duration == cache_exponents(Spline(s).duration_, 6)
      curr_spline == var_index(s, dim, A)
      next_spline == var_index(s + 1, dim, A)
  IN  Row([ZeroVec(GetOptCoeffCount) EXCEPT ![curr_spline + A] = 60 * t_duration[2],
                                            ![curr_spline + B] = 24 * t_duration[1],
                                            ![curr_spline + C] = 6,
                                            ![next_spline + C] = -6],
          0)

\* the loop over the junctions s = 0 .. size-2 and, inside, over the axes
JunctionRows ==
  [m \in 1..((NSplines - 1) * kDim2d * 2) |->
     LET s == (m - 1) \div (kDim2d * 2)
         dim == ((m - 1) % (kDim2d * 2)) \div 2
     IN  IF (m - 1) % 2 = 0 THEN JunctionAccRow(s, dim) ELSE JunctionJerkRow(s, dim)]

\* all rows in the order of the counter i
EqRows(start_cog_p, start_cog_v, end_cog) ==
  BoundaryRows(X, start_cog_p, start_cog_v, end_cog)
    \o BoundaryRows(Y, start_cog_p, start_cog_v, end_cog)
    \o JunctionRows

\* the matrix is allocated with EqConstraintCount columns; row number i of
\* the loop goes to column i.  The result carries the final value of i.
CreateEqualityContraints(start_cog_p, start_cog_v, end_cog) ==
  LET coeff == GetOptCoeffCount
      constraints == EqConstraintCount
      rows == EqRows(start_cog_p, start_cog_v, end_cog)
      written(c) == c < Len(rows)
  IN  [ec |-> FromCols(coeff, constraints,
                       Concrete([c \in 0..(constraints - 1) |->
                          IF written(c) THEN rows[c + 1].col ELSE ZeroVec(coeff)]),
                       Concrete([c \in 0..(constraints - 1) |->
                          IF written(c) THEN rows[c + 1].v ELSE 0])),
       i |-> Len(rows)]

-----------------------------------------------------------------------------
(* Support triangles (geometry provider) *)

\* SuppTriangle::TrLine: p*x + q*y + r > s_margin
TrLine(p, q, r, m) == [coeff |-> [p |-> p, q |-> q, r |-> r], s_margin |-> m]

\* a support triangle is kept as the three lines CalcLines() gives for it
CalcLines(triangle) == triangle

\* supp_triangles.at(step) of a vector held as a sequence
TriangleAt(supp_triangles, step) == supp_triangles[step + 1]

\* std::floor(duration / dt) for duration >= 0 and dt > 0
FloorDiv(duration, dt) == duration \div dt

-----------------------------------------------------------------------------
(* LineForConstraint *)

\* supp_triangles.at(s.step_) leaves with std::out_of_range
LineForConstraintThrows(supp_triangles) ==
  \E k \in 0..(NSplines - 1) :
    /\ ~Spline(k).four_leg_supp_
    /\ Spline(k).step_ >= Len(supp_triangles)

\* faulty variant: all nodes of line 0, then of line 1, then of line 2
PushLines_EdgeMajor(lines, n_nodes) ==
  [m \in 1..(3 * n_nodes) |-> lines[((m - 1) \div n_nodes) + 1]]

\* the lines pushed for n_nodes nodes: lines 0, 1, 2 for every node
PushLines(lines, n_nodes) ==
  [m \in 1..(3 * n_nodes) |-> lines[((m - 1) % 3) + 1]]

\* faulty variant: the four-leg-support check left out
LinesOfSpline_AlsoFourLeg(s, supp_triangles, dt) ==
  PushLines(CalcLines(TriangleAt(supp_triangles, s.step_)), FloorDiv(s.duration_, dt))

\* what one iteration of the loop over the segments appends
LinesOfSpline(s, supp_triangles, dt) ==
  IF s.four_leg_supp_
    THEN << >>
    ELSE LET n_nodes == FloorDiv(s.duration_, dt)
             lines == CalcLines(TriangleAt(supp_triangles, s.step_))
         IN  PushLines(lines, n_nodes)

RECURSIVE LinesLoop(_, _, _)
LinesLoop(k, supp_triangles, dt) ==
  IF k = NSplines
    THEN << >>
    ELSE LinesOfSpline(Spline(k), supp_triangles, dt)
           \o LinesLoop(k + 1, supp_triangles, dt)

LineForConstraint(supp_triangles, dt) == LinesLoop(0, supp_triangles, dt)

-----------------------------------------------------------------------------
(* Inequality constraint builder *)

GetXyDimAlternatingVector(x, y) ==
  LET coeff == NSplines * kOptCoeff * kDim2d
      in_block(r, k, dim) ==
        /\ r >= var_index(Spline(k).id_, dim, A)
        /\ r < var_index(Spline(k).id_, dim, A) + kOptCoeff
  IN  Concrete([r \in 0..(coeff - 1) |->
         IF \E k \in 0..(NSplines - 1) : in_block(r, k, Y)
           THEN y
           ELSE IF \E k \in 0..(NSplines - 1) : in_block(r, k, X) THEN x ELSE 0])

\* the iterations of the loops over the samples i and the lines j of one
\* segment, in order; one row each
SamplesOfSpline(s, dt) ==
  IF s.four_leg_supp_
    THEN << >>
    ELSE [m \in 1..(3 * FloorDiv(s.duration_, dt)) |->
            [k |-> s.id_, i |-> (m - 1) \div 3, j |-> (m - 1) % 3]]

\* the iterations of the three nested loops, in order
RECURSIVE IneqLoop(_, _)
IneqLoop(k, dt) ==
  IF k = NSplines
    THEN << >>
    ELSE SamplesOfSpline(Spline(k), dt) \o IneqLoop(k + 1, dt)

\* E and F of segment k on both axes, computed once per segment
DescribeEF(k, start_cog_p, start_cog_v) ==
  [ex |-> DescribeEByPrev(k, X, start_cog_v[X]),
   fx |-> DescribeFByPrev(k, X, start_cog_v[X], start_cog_p[X]),
   ey |-> DescribeEByPrev(k, Y, start_cog_v[Y]),
   fy |-> DescribeFByPrev(k, Y, start_cog_v[Y], start_cog_p[Y])]

\* what one pass of the loop over dim does to column c of ineq_ipopt_
IpoptColAfterDim(col, k, dim, t, h, e, f) ==
  LET assigned ==
        [col EXCEPT ![var_index(k, dim, A)] = t[5] - (h \div (g + z_acc)) * 20 * t[3],
                    ![var_index(k, dim, B)] = t[4] - (h \div (g + z_acc)) * 12 * t[2],
                    ![var_index(k, dim, C)] = t[3] - (h \div (g + z_acc)) * 6 * t[1],
                    ![var_index(k, dim, D)] = t[2] - (h \div (g + z_acc)) * 2]
  IN  AddVec(AddVec(assigned, ScaleVec(t[1], e.Ek)), ScaleVec(t[0], f.Fk))

\* ineq_ipopt_vx_[c], ineq_ipopt_vy_[c]: the constants of E and F on one axis
IpoptConstant(t, e, f) == e.non_dependent * t[0] + f.non_dependent

\* one row of the loop: it = [k, i, j], l = line_for_constraint.at(c),
\* ef = E and F of segment k
IneqRow(it, l, ef, h, dt) ==
  LET k == it.k
      time == it.i * dt
      t == cache_exponents(time, 6)
      ipopt == IpoptColAfterDim(
                 IpoptColAfterDim(ZeroVec(GetOptCoeffCount), k, X, t, h, ef.ex, ef.fx),
                 k, Y, t, h, ef.ey, ef.fy)
      line_coefficients_xy == GetXyDimAlternatingVector(l.coeff.p, l.coeff.q)
      vx == IpoptConstant(t, ef.ex, ef.fx)
      vy == IpoptConstant(t, ef.ey, ef.fy)
  IN  [ipopt |-> ipopt,
       col |-> CwiseProduct(ipopt, line_coefficients_xy),
       vx |-> vx, vy |-> vy,
       v |-> l.coeff.p * vx + l.coeff.q * vy + (l.coeff.r - l.s_margin)]

\* The matrix has one column per given line; row number c of the loop reads
\* line_for_constraint.at(c) and goes to column c.  thrown: at(c) left with
\* std::out_of_range because the loop asked for more lines than there are
\* (the columns before it are written, nothing is returned).  c: the final
\* value of the row counter.
CreateInequalityContraints(start_cog_p, start_cog_v, line_for_constraint, h, dt) ==
  LET coeff == GetOptCoeffCount
      n == Len(line_for_constraint)
      its == IneqLoop(0, dt)
      done == IF Len(its) < n THEN Len(its) ELSE n
      ef == Concrete([k \in 0..(NSplines - 1) |->
                        DescribeEF(k, start_cog_p, start_cog_v)])
      rows == Concrete([c \in 0..(done - 1) |->
                          IneqRow(its[c + 1], line_for_constraint[c + 1],
                                  ef[its[c + 1].k], h, dt)])
      written(c) == c < done
  IN  [thrown |-> Len(its) > n,
       c |-> done,
       ineq |-> FromCols(coeff, n,
                         Concrete([c \in 0..(n - 1) |->
                            IF written(c) THEN rows[c].col ELSE ZeroVec(coeff)]),
                         Concrete([c \in 0..(n - 1) |->
                            IF written(c) THEN rows[c].v ELSE 0])),
       ineq_ipopt_ |-> FromCols(coeff, n,
                         Concrete([c \in 0..(n - 1) |->
                            IF written(c) THEN rows[c].ipopt ELSE ZeroVec(coeff)]),
                         ZeroVec(n)).M,
       ineq_ipopt_vx_ |-> Concrete([c \in 0..(n - 1) |->
                            IF written(c) THEN rows[c].vx ELSE 0]),
       ineq_ipopt_vy_ |-> Concrete([c \in 0..(n - 1) |->
                            IF written(c) THEN rows[c].vy ELSE 0])]

-----------------------------------------------------------------------------
(* Inputs the model draws from *)

\* durations in ticks: shorter than dt = 2 ticks, and one and a half dt
Durations == { 1, 3 }

SegmentKinds ==
  { [four_leg_supp_ |-> TRUE, step_ |-> 0],
    [four_leg_supp_ |-> FALSE, step_ |-> 0],
    [four_leg_supp_ |-> FALSE, step_ |-> 1] }

\* the spline sequences of length n: id_ is the position in the sequence
SplinesOfLen(n) ==
  { [m \in 1..n |-> [id_ |-> m - 1,
                     duration_ |-> f[m][1],
                     step_ |-> f[m][2].step_,
                     four_leg_supp_ |-> f[m][2].four_leg_supp_]] :
      f \in [1..n -> Durations \X SegmentKinds] }

SplinePlans(max) == UNION { SplinesOfLen(n) : n \in 0..max }

Triangle0 == << TrLine(1, 0, 2, 1), TrLine(0, 1, 3, 1), TrLine(-1, -1, 5, 2) >>
Triangle1 == << TrLine(2, -1, 1, 0), TrLine(-1, 2, 4, 2), TrLine(1, 1, 0, 1) >>

\* a foothold plan with what the geometry provider makes of it: one support
\* triangle per step and the final stance (LF, RF, LH, RH)
FootholdPlans ==
  { [steps |-> << [p |-> Vec2(4, 0), leg |-> "LH"], [p |-> Vec2(8, 0), leg |-> "LF"] >>,
     tr |-> << Triangle0, Triangle1 >>,
     final_stance |-> << Vec2(8, 2), Vec2(6, -2), Vec2(4, 2), Vec2(2, -2) >>],
    [steps |-> << [p |-> Vec2(0, 4), leg |-> "RH"] >>,
     tr |-> << Triangle1 >>,
     final_stance |-> << Vec2(2, 2), Vec2(2, -2), Vec2(-2, 6), Vec2(-2, -2) >>] }

\* start position, start velocity, axis weights and robot height of a call
StartStates ==
  { [p |-> Vec2(0, 0), v |-> Vec2(0, 0), weight |-> Vec2(1, 1), h |-> g],
    [p |-> Vec2(1, -2), v |-> Vec2(1, 2), weight |-> Vec2(2, 3), h |-> 2 * g] }

SamplingIntervals == { 1, kDt }

\* the cost solve_quadprog reports: a finite value in 1/1000, or not finite
Cost(kind, milli) == [kind |-> kind, milli |-> milli]

\* answers of the QP solver: the cost and the vector it filled
QpResults(n) ==
  { [cost |-> Cost("inf", 0), x |-> FillVec(n, 0)],
    [cost |-> Cost("neginf", 0), x |-> FillVec(n, 0)],
    [cost |-> Cost("nan", 0), x |-> FillVec(n, 1)],
    [cost |-> Cost("finite", kCostThresholdMilli - 1), x |-> FillVec(n, 2)],
    [cost |-> Cost("finite", kCostThresholdMilli), x |-> FillVec(n, 3)],
    [cost |-> Cost("finite", 5000), x |-> FillVec(n, 4)] }

IpoptStatuses == { "Solve_Succeeded", "Infeasible_Problem_Detected" }

\* what the NLP holds after a run
NlpResults(n) == { [footholds |-> << 4, 1 >>, coeff |-> FillVec(n, 5)] }

\* the value the caller's output argument holds before any SolveIpopt call
CallerFootholds == << >>

NoQp == [handed |-> FALSE, cost |-> Cost("none", 0), x |-> FillVec(0, 0)]

NoNlp == [init_status |-> "none", initialize_calls |-> 0, setup_calls |-> 0,
          optimize_calls |-> 0,
          x_final_footholds_ |-> << >>, x_final_spline_coeff_ |-> FillVec(0, 0)]

\* the arguments of a builder run; built: the artifacts built from them
Args(start_cog_p, start_cog_v, end_cog, weight, tr, h, dt) ==
  [start_cog_p |-> start_cog_p, start_cog_v |-> start_cog_v,
   end_cog |-> end_cog, weight |-> weight, tr |-> tr, h |-> h, dt |-> dt]

Built(built, a) == [built |-> built] @@ a

NoArgs == Built({}, Args(Vec2(0, 0), Vec2(0, 0), Vec2(0, 0), Vec2(0, 0), << >>, 0, 0))

-----------------------------------------------------------------------------
(* The facade *)

\* ZmpOptimizer(spline_structure): the other members are default-constructed
Constructed(splines) ==
  /\ zmp_splines_ = splines
  /\ cf_ = MatVec(0, 0)
  /\ eq_ = MatVec(0, 0)
  /\ ineq_ = MatVec(0, 0)
  /\ footholds_ = << >>
  /\ lines_for_constraint_ = << >>
  /\ ineq_ipopt_ = MatVec(0, 0).M
  /\ ineq_ipopt_vx_ = FillVec(0, 0)
  /\ ineq_ipopt_vy_ = FillVec(0, 0)
  /\ last_call = "ZmpOptimizer"
  /\ thrown = "none"
  /\ ret = FillVec(0, 0)
  /\ final_footholds = CallerFootholds
  /\ qp = NoQp
  /\ nlp = NoNlp
  /\ setup_done = FALSE
  /\ counters = [i |-> 0, c |-> 0]

Init ==
  /\ \E splines \in SplinePlans(MaxFacadeSplines) : Constructed(splines)
  /\ args = NoArgs
  /\ pc = "facade"

\* SuppTriangle::FromFootholds: the triangles and the final stance of a plan
FromFootholds(plan) == [tr |-> plan.tr, final_stance |-> plan.final_stance]

\* average of the four final footholds
EndCog(final_stance) ==
  [d \in Dims |->
     (final_stance[1][d] + final_stance[2][d] + final_stance[3][d] + final_stance[4][d])
       \div 4]

SplinesEmpty == zmp_splines_ = << >>

\* faulty variant: the check placed after the first assignments
SetupRejected_CheckedLate(weight, steps) ==
  /\ thrown' = "runtime_error"
  /\ cf_' = CreateMinAccCostFunction(weight)
  /\ footholds_' = steps
  /\ UNCHANGED <<eq_, ineq_, lines_for_constraint_,
                 ineq_ipopt_, ineq_ipopt_vx_, ineq_ipopt_vy_>>
  /\ UNCHANGED <<setup_done, args, counters>>

\* the throw of the empty-sequence check: nothing was assigned before it
SetupRejected(weight, steps) ==
  /\ thrown' = "runtime_error"
  /\ UNCHANGED artifacts
  /\ UNCHANGED <<setup_done, args, counters>>

\* the body of SetupQpMatrices after the check
SetupBody(start_cog_p, start_cog_v, plan, weight, height_robot) ==
  \E dt \in {kDt} :
  \E geo \in {FromFootholds(plan)} :
  \E end_cog \in {EndCog(geo.final_stance)} :
  \E ec \in {CreateEqualityContraints(start_cog_p, start_cog_v, end_cog)} :
  \E a \in {Args(start_cog_p, start_cog_v, end_cog, weight, geo.tr, height_robot, dt)} :
      /\ cf_' = CreateMinAccCostFunction(weight)
      /\ footholds_' = plan.steps
      /\ eq_' = ec.ec
      /\ IF LineForConstraintThrows(geo.tr)
           THEN /\ thrown' = "out_of_range"
                /\ args' = Built({"cf", "eq"}, a)
                /\ counters' = [counters EXCEPT !.i = ec.i]
                /\ UNCHANGED <<lines_for_constraint_, ineq_, ineq_ipopt_,
                               ineq_ipopt_vx_, ineq_ipopt_vy_, setup_done>>
           ELSE \E lines \in {LineForConstraint(geo.tr, dt)} :
                \E ic \in {CreateInequalityContraints(start_cog_p, start_cog_v,
                                                      lines, height_robot, dt)} :
                /\ lines_for_constraint_' = lines
                /\ ineq_ipopt_' = ic.ineq_ipopt_
                /\ ineq_ipopt_vx_' = ic.ineq_ipopt_vx_
                /\ ineq_ipopt_vy_' = ic.ineq_ipopt_vy_
                /\ counters' = [i |-> ec.i, c |-> ic.c]
                /\ IF ic.thrown
                     THEN /\ thrown' = "out_of_range"
                          /\ args' = Built({"cf", "eq", "lines"}, a)
                          /\ UNCHANGED <<ineq_, setup_done>>
                     ELSE /\ thrown' = "none"
                          /\ ineq_' = ic.ineq
                          /\ args' = Built({"cf", "eq", "lines", "ineq"}, a)
                          /\ setup_done' = TRUE

SetupQpMatrices(start_cog_p, start_cog_v, plan, weight, height_robot) ==
  /\ pc = "facade"
  /\ last_call' = "SetupQpMatrices"
  /\ ret' = FillVec(0, 0)
  /\ qp' = NoQp
  /\ nlp' = NoNlp
  /\ UNCHANGED <<zmp_splines_, final_footholds, pc>>
  /\ IF SplinesEmpty
       THEN SetupRejected(weight, plan.steps)
       ELSE SetupBody(start_cog_p, start_cog_v, plan, weight, height_robot)

\* faulty variant: the sanity threshold left out
QpCostRejected_InfinityOnly(cost) == cost.kind = "inf"

\* cost == infinity || cost < 0.002 (NaN compares false, -infinity is less)
QpCostRejected(cost) ==
  \/ cost.kind = "inf"
  \/ cost.kind = "neginf"
  \/ (cost.kind = "finite" /\ cost.milli < kCostThresholdMilli)

\* Eigen::solve_quadprog(cf_.M, cf_.v, eq_.M, eq_.v, ineq_.M, ineq_.v, x):
\* the solver collaborator reads the six artifacts, fills x and reports a
\* cost; by its contract it leaves the artifacts as they are
solve_quadprog(result) ==
  /\ qp' = [handed |-> TRUE, cost |-> result.cost, x |-> result.x]
  /\ UNCHANGED artifacts

\* result: the answer of the solver for a vector of GetOptCoeffCount entries
SolveQp(result) ==
  /\ pc = "facade"
  /\ last_call' = "SolveQp"
  /\ solve_quadprog(result)
  /\ IF QpCostRejected(result.cost)
       THEN thrown' = "length_error" /\ ret' = FillVec(0, 0)
       ELSE thrown' = "none" /\ ret' = result.x
  /\ nlp' = NoNlp
  /\ UNCHANGED <<zmp_splines_, final_footholds, setup_done, args, counters, pc>>

\* faulty variant: the status of Initialize not looked at
IpoptInitFailed_Ignored(status) == FALSE

IpoptInitFailed(status) == status # "Solve_Succeeded"

\* init_status, opt_status: what Initialize and OptimizeTNLP return;
\* found: the vectors the NLP holds after the run
SolveIpopt(opt_coefficients_eig, init_status, opt_status, found) ==
  /\ pc = "facade"
  /\ last_call' = "SolveIpopt"
  /\ qp' = NoQp
  /\ IF IpoptInitFailed(init_status)
       THEN /\ thrown' = "length_error"
            /\ ret' = FillVec(0, 0)
            /\ nlp' = [NoNlp EXCEPT !.init_status = init_status,
                                    !.initialize_calls = 1]
            /\ UNCHANGED final_footholds
       ELSE /\ thrown' = "none"
            /\ nlp' = [init_status |-> init_status,
                       initialize_calls |-> 1, setup_calls |-> 1, optimize_calls |-> 1,
                       x_final_footholds_ |-> found.footholds,
                       x_final_spline_coeff_ |-> found.coeff]
            /\ final_footholds' = found.footholds
            /\ ret' = found.coeff
  /\ UNCHANGED artifacts
  /\ UNCHANGED <<zmp_splines_, setup_done, args, counters, pc>>

CallSetup ==
  \E st \in StartStates, plan \in FootholdPlans :
    SetupQpMatrices(st.p, st.v, plan, st.weight, st.h)

CallSolveQp == \E result \in QpResults(GetOptCoeffCount) : SolveQp(result)

CallSolveIpopt ==
  \E init_status \in IpoptStatuses, opt_status \in IpoptStatuses,
     found \in NlpResults(GetOptCoeffCount) :
    SolveIpopt(ret, init_status, opt_status, found)

Next == CallSetup \/ CallSolveQp \/ CallSolveIpopt

Spec == Init /\ [][Next]_vars

-----------------------------------------------------------------------------
(* The builders one by one, for any sampling interval: the calls of          *)
(* SetupQpMatrices in its order, on a non-empty spline sequence, with the    *)
(* arguments drawn at the start.                                             *)

InitBuilders ==
  /\ \E splines \in SplinePlans(MaxSplines) \ {<< >>} : Constructed(splines)
  /\ \E st \in StartStates, plan \in FootholdPlans, dt \in SamplingIntervals :
       args = Built({}, Args(st.p, st.v, EndCog(FromFootholds(plan).final_stance),
                             st.weight, FromFootholds(plan).tr, st.h, dt))
  /\ pc = "cost"

BuilderFrame ==
  UNCHANGED <<zmp_splines_, footholds_, ret, final_footholds, qp, nlp, setup_done>>

BuildCost ==
  /\ pc = "cost"
  /\ pc' = "eq"
  /\ last_call' = "CreateMinAccCostFunction"
  /\ cf_' = CreateMinAccCostFunction(args.weight)
  /\ args' = [args EXCEPT !.built = @ \cup {"cf"}]
  /\ BuilderFrame
  /\ UNCHANGED <<eq_, ineq_, lines_for_constraint_, ineq_ipopt_, ineq_ipopt_vx_,
                 ineq_ipopt_vy_, thrown, counters>>

BuildEq ==
  /\ pc = "eq"
  /\ pc' = "lines"
  /\ last_call' = "CreateEqualityContraints"
  /\ \E ec \in {CreateEqualityContraints(args.start_cog_p, args.start_cog_v,
                                         args.end_cog)} :
       /\ eq_' = ec.ec
       /\ counters' = [counters EXCEPT !.i = ec.i]
  /\ args' = [args EXCEPT !.built = @ \cup {"eq"}]
  /\ BuilderFrame
  /\ UNCHANGED <<cf_, ineq_, lines_for_constraint_, ineq_ipopt_, ineq_ipopt_vx_,
                 ineq_ipopt_vy_, thrown>>

BuildLines ==
  /\ pc = "lines"
  /\ last_call' = "LineForConstraint"
  /\ IF LineForConstraintThrows(args.tr)
       THEN /\ thrown' = "out_of_range"
            /\ pc' = "failed"
            /\ UNCHANGED <<lines_for_constraint_, args>>
       ELSE /\ lines_for_constraint_' = LineForConstraint(args.tr, args.dt)
            /\ pc' = "ineq"
            /\ args' = [args EXCEPT !.built = @ \cup {"lines"}]
            /\ UNCHANGED thrown
  /\ BuilderFrame
  /\ UNCHANGED <<cf_, eq_, ineq_, ineq_ipopt_, ineq_ipopt_vx_, ineq_ipopt_vy_,
                 counters>>

BuildIneq ==
  /\ pc = "ineq"
  /\ last_call' = "CreateInequalityContraints"
  /\ \E ic \in {CreateInequalityContraints(args.start_cog_p, args.start_cog_v,
                                           lines_for_constraint_, args.h, args.dt)} :
       /\ ineq_ipopt_' = ic.ineq_ipopt_
       /\ ineq_ipopt_vx_' = ic.ineq_ipopt_vx_
       /\ ineq_ipopt_vy_' = ic.ineq_ipopt_vy_
       /\ counters' = [counters EXCEPT !.c = ic.c]
       /\ IF ic.thrown
            THEN /\ thrown' = "out_of_range"
                 /\ pc' = "failed"
                 /\ UNCHANGED <<ineq_, args>>
            ELSE /\ ineq_' = ic.ineq
                 /\ pc' = "done"
                 /\ args' = [args EXCEPT !.built = @ \cup {"ineq"}]
                 /\ UNCHANGED thrown
  /\ BuilderFrame
  /\ UNCHANGED <<cf_, eq_, lines_for_constraint_>>

NextBuilders == BuildCost \/ BuildEq \/ BuildLines \/ BuildIneq

SpecBuilders == InitBuilders /\ [][NextBuilders]_vars

-----------------------------------------------------------------------------
(* Properties *)

\* C1: a SetupQpMatrices call on an empty spline sequence leaves with the
\* runtime_error of the check and changes none of cf_, eq_, ineq_,
\* footholds_, lines_for_constraint_ (nor the raw inequality members): the
\* facade is as it was before the call.
C1_EmptySetupRejected ==
  [][(last_call' = "SetupQpMatrices" /\ SplinesEmpty)
       => /\ thrown' = "runtime_error"
          /\ UNCHANGED artifacts
          /\ UNCHANGED setup_done]_vars

C1_Witness ==
  /\ SplinesEmpty
  /\ last_call = "SetupQpMatrices"
  /\ thrown = "runtime_error"
  /\ cf_ = MatVec(0, 0)
  /\ footholds_ = << >>

\* a cost that is infinite, or below the threshold of 0.002
CostInfiniteOrBelowThreshold(cost) ==
  \/ cost.kind \in {"inf", "neginf"}
  \/ (cost.kind = "finite" /\ cost.milli < 2)

\* C2: SolveQp leaves with length_error exactly when the cost the solver
\* reported is infinite or below 0.002; for every other cost it returns the
\* solver's vector, of GetOptCoeffCount entries; either way the built
\* matrices are unchanged.
C2_SolveQpRejectsBadCost ==
  [][last_call' = "SolveQp"
       => /\ qp'.handed
          /\ (thrown' = "length_error") <=> CostInfiniteOrBelowThreshold(qp'.cost)
          /\ (~CostInfiniteOrBelowThreshold(qp'.cost)
                => /\ thrown' = "none"
                   /\ ret' = qp'.x
                   /\ DOMAIN ret' = 0..(GetOptCoeffCount - 1))
          /\ UNCHANGED artifacts]_vars

C2_Witness ==
  /\ last_call = "SolveQp"
  /\ setup_done
  /\ qp.cost = Cost("finite", 1)
  /\ thrown = "length_error"
  /\ cf_.rows = GetOptCoeffCount
  /\ cf_.rows > 0

\* number of samples of the segments k, k+1, ... that are not full-support
RECURSIVE SamplesFrom(_, _)
SamplesFrom(k, dt) ==
  IF k >= NSplines
    THEN 0
    ELSE (IF Spline(k).four_leg_supp_ THEN 0 ELSE Spline(k).duration_ \div dt)
           + SamplesFrom(k + 1, dt)

\* C3: LineForConstraint gives 3 * (sum of floor(duration/dt) over the
\* segments that are not full-support) lines, and CreateInequalityContraints
\* fills exactly that many rows: its counter ends at the number of lines and
\* it never runs past them.
C3_InequalityRowCount ==
  /\ "lines" \in args.built
       => Len(lines_for_constraint_) = 3 * SamplesFrom(0, args.dt)
  /\ last_call = "CreateInequalityContraints" => "ineq" \in args.built
  /\ "ineq" \in args.built
       => /\ ineq_.cols = 3 * SamplesFrom(0, args.dt)
          /\ counters.c = ineq_.cols
          /\ thrown = "none"

C3_Witness ==
  /\ pc = "done"
  /\ "ineq" \in args.built
  /\ ineq_.cols = 3
  /\ \E k \in 0..(NSplines - 1) :
       ~Spline(k).four_leg_supp_ /\ Spline(k).duration_ < args.dt

\* exponent of t that a coefficient letter multiplies: A t^5 ... D t^2
PolyPower(letter) == 5 - letter

RECURSIVE Falling(_, _)
Falling(n, order) == IF order = 0 THEN 1 ELSE n * Falling(n - 1, order - 1)

\* coefficient of a letter in the order-th derivative of the quintic at t
DerivCoef(letter, order, t) ==
  IF PolyPower(letter) < order
    THEN 0
    ELSE Falling(PolyPower(letter), order) * Pow(t, PolyPower(letter) - order)

\* the free-coefficient part of the order-th derivative of segment k on
\* axis dim at time t, as a vector over all coefficients
DerivVec(k, dim, order, t) ==
  Concrete([r \in 0..(GetOptCoeffCount - 1) |->
              IF r >= var_index(k, dim, A) /\ r <= var_index(k, dim, D)
                THEN DerivCoef(r - var_index(k, dim, A), order, t)
                ELSE 0])

\* position(t) of segment k on an axis as an affine function of the free
\* coefficients: A t^5 + B t^4 + C t^3 + D t^2 + E t + F with E, F propagated
PositionAffine(k, dim, t, start_cog_p, start_cog_v) ==
  LET e == DescribeEByPrev(k, dim, start_cog_v[dim])
      f == DescribeFByPrev(k, dim, start_cog_v[dim], start_cog_p[dim])
  IN  [lin |-> AddVec(DerivVec(k, dim, 0, t), AddVec(ScaleVec(t, e.Ek), f.Fk)),
       const |-> t * e.non_dependent + f.non_dependent]

\* zmp(t) = position(t) - (height / (g + 0)) * acceleration(t)
ZmpAffine(k, dim, t, a) ==
  LET pos == PositionAffine(k, dim, t, a.start_cog_p, a.start_cog_v)
  IN  [lin |-> AddVec(pos.lin, ScaleVec(-(a.h \div g), DerivVec(k, dim, 2, t))),
       const |-> pos.const]

\* the segment, sample and edge of row c: segments in order, full-support
\* ones skipped, then samples, then the three edges
RECURSIVE RowOwner(_, _, _)
RowOwner(k, c, dt) ==
  LET m == IF Spline(k).four_leg_supp_ THEN 0 ELSE 3 * (Spline(k).duration_ \div dt)
  IN  IF c < m
        THEN [k |-> k, i |-> c \div 3, j |-> c % 3]
        ELSE RowOwner(k + 1, c - m, dt)

\* edge number j of the support triangle of the step of segment k
EdgeOf(k, j) == args.tr[Spline(k).step_ + 1][j + 1]

\* C4: every inequality row, as an affine function of the coefficients, is
\* p*zmp_x(t) + q*zmp_y(t) + r - margin for its segment, its sample time
\* t = i*dt and its edge; the constant of E enters multiplied by t.
C4_RowIsZmpCondition ==
  "ineq" \in args.built =>
    \A c \in 0..(ineq_.cols - 1) :
      LET o == RowOwner(0, c, args.dt)
          l == EdgeOf(o.k, o.j)
          zx == ZmpAffine(o.k, X, o.i * args.dt, args)
          zy == ZmpAffine(o.k, Y, o.i * args.dt, args)
      IN  /\ Col(ineq_, c)
               = AddVec(ScaleVec(l.coeff.p, zx.lin), ScaleVec(l.coeff.q, zy.lin))
          /\ ineq_.v[c]
               = l.coeff.p * zx.const + l.coeff.q * zy.const + l.coeff.r - l.s_margin

\* C5 as stated: 4*2 + 3*2 + 2*2*(n - 1) equality rows.
C5_RowCountAsStated ==
  "eq" \in args.built => eq_.cols = 4 * 2 + 3 * 2 + 2 * 2 * (NSplines - 1)

\* C5 (amended): the equality builder produces 2*2 (initial acceleration and
\* jerk) + 3*2 (final) + 2*2*(n - 1) (junctions) rows, and writes every one.
C5_EqualityRowCount ==
  "eq" \in args.built =>
    /\ eq_.cols = 2 * 2 + 3 * 2 + 2 * 2 * (NSplines - 1)
    /\ eq_.rows = GetOptCoeffCount
    /\ counters.i = eq_.cols
    /\ \A c \in 0..(eq_.cols - 1) : \E r \in 0..(eq_.rows - 1) : eq_.M[r][c] # 0

C5_Witness ==
  /\ "eq" \in args.built
  /\ NSplines = 2
  /\ eq_.cols = 14

\* C6: the cost matrix is symmetric, and no entry couples coefficients of
\* different segments or of different axes.
C6_CostSymmetric ==
  "cf" \in args.built =>
    /\ cf_.rows = GetOptCoeffCount /\ cf_.cols = GetOptCoeffCount
    /\ \A r, c \in 0..(cf_.rows - 1) :
         /\ cf_.M[r][c] = cf_.M[c][r]
         /\ cf_.M[r][c] # 0 => r \div kOptCoeff = c \div kOptCoeff

C6_Witness ==
  /\ "cf" \in args.built
  /\ NSplines = 2
  /\ \E r, c \in 0..(cf_.rows - 1) : r > c /\ cf_.M[r][c] # 0
  /\ args.weight[X] # args.weight[Y]

\* C7: solve_quadprog is handed the matrices, and the NLP is seeded, only
\* after some SetupQpMatrices call has succeeded.
C7_SolversOnlyAfterSetup ==
  (qp.handed \/ nlp.setup_calls > 0) => setup_done

\* C8: row c and line c belong to edge (c mod 3) of the support triangle of
\* the step of the segment that row c samples, rows running by segment,
\* then sample, then edge.
C8_RowsAlignedWithLines ==
  "ineq" \in args.built =>
    \A c \in 0..(ineq_.cols - 1) :
      LET o == RowOwner(0, c, args.dt)
          l == EdgeOf(o.k, c % 3)
          row == IneqRow(o, l, DescribeEF(o.k, args.start_cog_p, args.start_cog_v),
                         args.h, args.dt)
      IN  /\ lines_for_constraint_[c + 1] = l
          /\ Col(ineq_, c) = row.col
          /\ ineq_.v[c] = row.v

C8_Witness ==
  /\ "ineq" \in args.built
  /\ NSplines = 2
  /\ ~Spline(0).four_leg_supp_ /\ ~Spline(1).four_leg_supp_
  /\ Spline(0).step_ # Spline(1).step_
  /\ \E c \in 0..(ineq_.cols - 1) :
       RowOwner(0, c, args.dt).k = 1 /\ RowOwner(0, c, args.dt).i = 2

\* the row accel_s(T) - accel_s+1(0) (order 2) or jerk (order 3)
JunctionDifference(s, dim, order) ==
  AddVec(DerivVec(s, dim, order, Spline(s).duration_),
         ScaleVec(-1, DerivVec(s + 1, dim, order, 0)))

\* C9: for every junction s, s+1 and axis there are two rows with zero
\* right-hand side, acceleration then jerk: 20A T^3 + 12B T^2 + 6C T + 2D
\* - 2D' and 60A T^2 + 24B T + 6C - 6C', zero everywhere else.
C9_JunctionRows ==
  "eq" \in args.built =>
    \A s \in 0..(NSplines - 2) : \A dim \in Dims :
      LET acc == 10 + 4 * s + 2 * dim
          jerk == acc + 1
      IN  /\ Col(eq_, acc) = JunctionDifference(s, dim, 2)
          /\ eq_.v[acc] = 0
          /\ Col(eq_, jerk) = JunctionDifference(s, dim, 3)
          /\ eq_.v[jerk] = 0

C9_Witness ==
  /\ "eq" \in args.built
  /\ NSplines = 2
  /\ Spline(0).duration_ = 3
  /\ eq_.M[var_index(0, Y, A)][12] = 540
  /\ eq_.M[var_index(1, Y, D)][12] = -2

\* C10: SolveIpopt with a failed Initialize leaves with length_error at once:
\* one Initialize call, no SetupNlp, no OptimizeTNLP, the caller's footholds
\* not written; with a successful one it returns the NLP's coefficients and
\* writes the NLP's footholds.
C10_SolveIpoptInit ==
  [][last_call' = "SolveIpopt"
       => /\ nlp'.initialize_calls = 1
          /\ nlp'.init_status # "Solve_Succeeded"
               => /\ thrown' = "length_error"
                  /\ nlp'.setup_calls = 0
                  /\ nlp'.optimize_calls = 0
                  /\ UNCHANGED final_footholds
          /\ nlp'.init_status = "Solve_Succeeded"
               => /\ thrown' = "none"
                  /\ nlp'.setup_calls = 1
                  /\ final_footholds' = nlp'.x_final_footholds_
                  /\ ret' = nlp'.x_final_spline_coeff_]_vars

C10_Witness ==
  /\ last_call = "SolveIpopt"
  /\ nlp.init_status = "Infeasible_Problem_Detected"
  /\ thrown = "length_error"
  /\ final_footholds = CallerFootholds

====
